---- MODULE Spec2Model ----
(***************************************************************************)
(* Trade decision and cycle-evaluation engine of vnkchat:                  *)
(*   - the order lock (app/utils/idempotency.py, acquire_order_lock)       *)
(*   - place_order_task and its Celery retry / failure handling (tasks.py) *)
(*   - evaluate_trading_cycle / evaluate_trade_decision (app/strategies.py)*)
(*   - decide_trade (logic/trade_decision.py)                              *)
(*   - the manual retry route and the script actions delete, pause/resume  *)
(*     and exit of the strategy details page (main.py)                     *)
(*                                                                         *)
(* Time is a clock in ticks of SecondsPerTick seconds of market-local wall *)
(* time; every stored time (last_order_time, failure_timestamp, the        *)
(* acquisition time of a lock) is a tick and every stored date a day       *)
(* number.  None is NoneVal.  Prices are integers and the percentage       *)
(* comparisons of decide_trade are done exactly, cross-multiplied by 100.  *)
(*                                                                         *)
(* A handler is one step, except that place_order_task is two: acquiring   *)
(* the lock, and everything from loading the script to the finally clause  *)
(* and Celery's retry or on_failure, with the broker's answers chosen in   *)
(* that step.  One evaluation cycle runs at a time, over all scripts,      *)
(* except in OverlapSpec, where two invocations load and run separately.   *)
(*                                                                         *)
(* Spec is the engine with one script, the worker and the retry and delete *)
(* routes; LockSpec the order lock on its own; CrashSpec the order and     *)
(* threshold-fetch locks of holders that never release, under passing      *)
(* time; PairSpec the cycle over scripts that share a symbol; RouteSpec    *)
(* the cycle with the script actions; OverlapSpec two overlapping cycles   *)
(* with the worker; DecideSpec decide_trade on its own; OhlcSpec           *)
(* get_previous_ohlc (app/shoonya_integration.py) on its own; AbortSpec    *)
(* cycles that end in an uncaught exception before the commit; SizeSpec    *)
(* the dispatch step over the sizing of the strategy set; FetchSpec        *)
(* fetch_entry_threshold_task with its lock and Celery's retries.  ev      *)
(* records what the last step did, for a cycle also what it did with each  *)
(* script.                                                                 *)
(***************************************************************************)
EXTENDS Integers, Sequences, FiniteSets, TLC

----------------------------------------------------------------------------
(* Bounds of the model *)

NumScripts == 2
MaxTasks == 2
NumLive == 1
MaxElapsed == 2
SecondsPerTick == 300

(* Program constants *)

ORDER_COOLDOWN_SECONDS == 600
FAILURE_COOLDOWN_SECONDS == 60
MaxRetries == 3
MARKET_OPEN == 33300
MARKET_CLOSE == 55800
SecondsPerDay == 24 * 3600

NoneVal == -1
Unfetched == -3

Scripts == 1..NumScripts
TaskIds == 1..MaxTasks

(* Values the collaborators can produce *)
FillQty == 1
FillPrice == 100
RefPrice == 100
LivePrices == {0, RefPrice - 15, FillPrice + 15}
FetchResults == {NoneVal, RefPrice}

----------------------------------------------------------------------------
(* Wall clock helpers: datetime.date(), datetime.time() of a tick *)

SecondsOf(tick) == tick * SecondsPerTick
DayOf(tick) == SecondsOf(tick) \div SecondsPerDay
TimeOfDay(tick) == SecondsOf(tick) % SecondsPerDay

(* The clock starts on day 1 (day 0 is "yesterday"): either at the first   *)
(* tick of the trading window or at the last tick before midnight.         *)
FirstMarketTick == (SecondsPerDay + MARKET_OPEN + SecondsPerTick - 1) \div SecondsPerTick
LateEveningTick == ((2 * SecondsPerDay) \div SecondsPerTick) - 1
StartTicks == {FirstMarketTick, LateEveningTick}

----------------------------------------------------------------------------
(* The strategy set shared by the scripts (models.py, StrategySet).        *)
(* reentry_params is the parsed JSON mapping; NoCfg marks an absent key.   *)

NoCfg == -1000
Strategy ==
    [ entry_basis |-> "close",
      entry_percentage |-> -5,
      investment_type |-> "quantity",
      investment_value |-> 1,
      profit_target_type |-> "percentage",
      profit_target_value |-> 10,
      stop_loss_type |-> "percentage",
      stop_loss_value |-> 0,
      reentry_prev_day |-> -5,
      reentry_last_buy |-> NoCfg,
      reentry_weighted_avg |-> NoCfg ]

EnableReentry == TRUE

(* A row of strategy_script (models.py, StrategyScript) *)
NewScript ==
    [ exists |-> TRUE,
      status |-> "Waiting",
      last_trade_date |-> NoneVal,
      entry_threshold |-> NoneVal,
      entry_threshold_date |-> NoneVal,
      reentry_threshold |-> NoneVal,
      reentry_threshold_date |-> NoneVal,
      last_buy_price |-> NoneVal,
      weighted_avg_price |-> NoneVal,
      last_entry_date |-> NoneVal,
      last_order_time |-> NoneVal,
      cumulative_qty |-> 0,
      failure_timestamp |-> NoneVal,
      trade_count |-> 0 ]

(* A script holding a position bought yesterday *)
RunningScript ==
    [ NewScript EXCEPT !.status = "Running",
                       !.last_buy_price = FillPrice,
                       !.weighted_avg_price = FillPrice,
                       !.last_entry_date = 0,
                       !.cumulative_qty = FillQty,
                       !.trade_count = 1 ]

InitScripts == {NewScript, RunningScript}

----------------------------------------------------------------------------
VARIABLES
    clock,          \* current tick of wall time
    debug,          \* app.config['DEBUG']: the cycle bypasses the market-hours gate
    db,             \* committed rows of strategy_script, by script id
    lock,           \* Redis keys order_pending:<user>:<script>: tick of acquisition, or NoneVal
    task,           \* place_order_task messages: queued, or executing under the lock
    hist,           \* what the cycle dispatched last, per script (for the properties)
    ev              \* the step taken last (for the properties)

vars == <<clock, debug, db, lock, task, hist, ev>>

----------------------------------------------------------------------------
(* Redis: SET key 1 NX EX expire, DEL key, and key expiry *)

KeyPresent(lk, k) == lk[k] # NoneVal

(* SET without NX: writes the key whether or not it is there *)
SetAlways(lk, k, now) == [ok |-> TRUE, lock |-> [lk EXCEPT ![k] = now]]

(* client.set(key, "1", nx=True, ex=expire): truthy iff the key was absent *)
SetNX(lk, k, now) ==
    IF KeyPresent(lk, k)
    THEN [ok |-> FALSE, lock |-> lk]
    ELSE [ok |-> TRUE, lock |-> [lk EXCEPT ![k] = now]]

(* redis_client.delete(lock_key) *)
DeleteKey(lk, k) == [lk EXCEPT ![k] = NoneVal]

(* A key set with ex=ORDER_COOLDOWN_SECONDS is gone once that many seconds passed *)
ExpireKeys(lk, now) ==
    [k \in DOMAIN lk |->
        IF lk[k] # NoneVal /\ SecondsOf(now - lk[k]) >= ORDER_COOLDOWN_SECONDS
        THEN NoneVal ELSE lk[k]]

----------------------------------------------------------------------------
(* place_order_task *)

FreeTask == [pc |-> "free", sid |-> 0, decision |-> "NONE", qty |-> 0, retries |-> 0]

(* Responses of place_order: no response, a dict with stat Ok / Not_Ok /    *)
(* anything else, or the ShoonyaAPIException the wrapper raises.            *)
Responses == {"None", "Ok", "Not_Ok", "Other", "Raises"}
(* single_order_history: holds a REJECTED record, a record with           *)
(* fillshares > 0, or neither.                                             *)
Histories == {"rejected", "fill", "nofill"}

(* What the broker answers during one execution: the login (api1), the     *)
(* first place_order (r1) and, only after an empty first response, the    *)
(* forced login (api2) and the second place_order (r2); the order history  *)
(* (h) only after a response with stat Ok.  ctx: an application context is *)
(* active around the task (it runs eagerly inside one), which only the     *)
(* handler of ShoonyaAPIException depends on.                              *)
BrokerAnswers ==
    { in \in [api1 : BOOLEAN, r1 : Responses, api2 : BOOLEAN, r2 : Responses,
              h : Histories, ctx : BOOLEAN] :
        /\ (~in.api1 => in.r1 = "None")
        /\ (~in.api1 \/ in.r1 # "None" => in.api2 /\ in.r2 = "None")
        /\ (~in.api2 => in.r2 = "None")
        /\ (in.r1 # "Ok" /\ in.r2 # "Ok" => in.h = "nofill")
        /\ (in.r1 # "Raises" /\ in.r2 # "Raises" => in.ctx) }

(* The response the task goes on with after the forced re-login *)
SecondAttempt(api2, r2) == IF api2 THEN r2 ELSE "None"

(* The path one execution of the task body takes (tasks.py 141-320) *)
PlaceOrderPath(exists, in) ==
    LET result == IF in.r1 = "None" THEN SecondAttempt(in.api2, in.r2) ELSE in.r1 IN
    IF ~exists THEN "missing"
    ELSE IF ~in.api1 THEN "api_fail"
    ELSE IF result = "Raises" THEN "shoonya_exc"
    ELSE IF result = "None" THEN "no_response"
    ELSE IF result = "Not_Ok" THEN "not_ok"
    ELSE IF result # "Ok" THEN "unexpected"
    ELSE IF in.h = "rejected" THEN "rejected"
    ELSE IF in.h = "nofill" THEN "no_fill"
    ELSE "fill"

(* The first attempt returned None: failure_timestamp is committed and a   *)
(* fresh login forced before anything else (tasks.py 162-174).             *)
ForcedRelogin(exists, in) == exists /\ in.api1 /\ in.r1 = "None"

(* The local variable now of place_order_task is assigned only in the      *)
(* REJECTED branch (tasks.py 241); on every other path it is unbound.      *)
Unbound == -2
LocalNow(path, now) == IF path = "rejected" THEN now ELSE Unbound

(* Step 10 of the task: the script after a fill (tasks.py 286-309) *)
FilledScript(sc, decision, nowv) ==
    IF decision \in {"BUY", "RE-ENTRY"}
    THEN [sc EXCEPT !.cumulative_qty = sc.cumulative_qty + FillQty,
                    !.weighted_avg_price =
                        ((IF sc.weighted_avg_price # NoneVal
                          THEN sc.weighted_avg_price ELSE 0) * sc.cumulative_qty
                         + FillPrice * FillQty) \div (sc.cumulative_qty + FillQty),
                    !.last_buy_price = FillPrice,
                    !.status = "Running",
                    !.last_entry_date = DayOf(nowv),
                    !.last_order_time = nowv,
                    !.trade_count = sc.trade_count + 1]
    ELSE [sc EXCEPT !.status = "Sold-out",
                    !.last_trade_date = DayOf(nowv),
                    !.entry_threshold = NoneVal,
                    !.entry_threshold_date = NoneVal,
                    !.reentry_threshold = NoneVal,
                    !.reentry_threshold_date = NoneVal,
                    !.last_buy_price = NoneVal]

(* A body that treats every path as a rejection *)
CommitAsRejected(sc, path, relogin, decision, now) ==
    [sc EXCEPT !.status = "Failed", !.failure_timestamp = now,
               !.cumulative_qty = 0, !.weighted_avg_price = NoneVal]

(* The row the task body leaves committed (tasks.py 162-311) *)
BodyCommit(sc, path, relogin, decision, now) ==
    LET s1 == IF relogin THEN [sc EXCEPT !.failure_timestamp = now] ELSE sc IN
    CASE path = "not_ok" ->
            [s1 EXCEPT !.status = "Failed", !.failure_timestamp = now]
      [] path = "unexpected" ->
            [s1 EXCEPT !.failure_timestamp = now]
      [] path = "rejected" ->
            [s1 EXCEPT !.status = "Failed", !.failure_timestamp = now,
                       !.cumulative_qty = 0, !.weighted_avg_price = NoneVal]
      [] path = "fill" ->
            IF LocalNow(path, now) = Unbound
            THEN s1     \* UnboundLocalError at now.date(): the session is discarded
            ELSE FilledScript(s1, decision, LocalNow(path, now))
      [] OTHER -> s1

(* How the function ends: a return value, PlaceOrderRetry, or another       *)
(* exception that leaves the function (tasks.py 322-350).  The handler of   *)
(* ShoonyaAPIException swallows it after logging through current_app, which *)
(* raises RuntimeError where no application context is active: the `with`   *)
(* block of line 139 is left by then.                                       *)
BodyOutcome(path, now, ctx) ==
    CASE path \in {"missing", "not_ok", "rejected", "no_fill"} -> "return"
      [] path = "shoonya_exc" -> IF ctx THEN "return" ELSE "raise"
      [] path \in {"api_fail", "no_response", "unexpected"} -> "retry"
      [] path = "fill" -> IF LocalNow(path, now) = Unbound THEN "raise" ELSE "return"
      [] path = "pending" -> "raise"

(* A finally that leaves the key alone *)
NoFinallyDelete(lk, k, acquired) == lk

(* finally: redis_client.delete(lock_key), whatever happened before and     *)
(* whether or not this execution acquired the key (tasks.py 351-359).       *)
FinallyLock(lk, k, acquired) == DeleteKey(lk, k)

(* A retry budget that is one too large *)
CanRetryOnceMore(outcome, retries) == outcome = "retry" /\ retries <= MaxRetries

(* autoretry_for=(PlaceOrderRetry,), max_retries=3: Task.retry re-queues    *)
(* the message while request.retries < max_retries.                         *)
CanRetry(outcome, retries) == outcome = "retry" /\ retries < MaxRetries

(* The task ends in an exception that is not retried *)
TaskFails(outcome, retries) ==
    outcome = "raise" \/ (outcome = "retry" /\ ~CanRetry(outcome, retries))

(* BaseTaskWithFailure.on_failure (tasks.py 78-97) *)
FailedScript(sc, now) ==
    IF sc.exists
    THEN [sc EXCEPT !.status = "Failed", !.failure_timestamp = now]
    ELSE sc

(* The row after Celery handled the end of the execution *)
AfterOutcome(sc, outcome, retries, now) ==
    IF TaskFails(outcome, retries) THEN FailedScript(sc, now) ELSE sc

(* The message after Celery handled the end of the execution *)
NextMessage(tk, outcome) ==
    IF CanRetry(outcome, tk.retries)
    THEN [tk EXCEPT !.pc = "queued", !.retries = tk.retries + 1]
    ELSE FreeTask

(* The step taken last: which operation, for which script, and the path an *)
(* execution of place_order_task took.                                      *)
(* What the last evaluation cycle did with a script: where its iteration   *)
(* ended, how often it called get_previous_ohlc, and whether the call for   *)
(* the entry threshold raised or returned None.                             *)
NoReport == [stage |-> "skipped", calls |-> 0, failed |-> FALSE]
NoReports == [s \in Scripts |-> NoReport]

Event(op, s, path) ==
    [op |-> op, sid |-> s, path |-> path, end |-> "none", rep |-> NoReports,
     ltp |-> 0]

(* How Celery disposes of an execution that ended with outcome *)
EndOf(outcome, retries) ==
    IF CanRetry(outcome, retries) THEN "retry"
    ELSE IF TaskFails(outcome, retries) THEN "failure"
    ELSE "success"

ExecEvent(s, path, outcome, retries) ==
    [Event("execute", s, path) EXCEPT !.end = EndOf(outcome, retries)]

(* A worker starts the task: acquire_order_lock succeeds (tasks.py 134-137) *)
AcquireOk(t) ==
    /\ task[t].pc = "queued"
    /\ SetNX(lock, task[t].sid, clock).ok
    /\ lock' = SetNX(lock, task[t].sid, clock).lock
    /\ task' = [task EXCEPT ![t].pc = "locked"]
    /\ ev' = Event("acquire", task[t].sid, "none")
    /\ UNCHANGED <<clock, debug, db, hist>>

(* A worker starts the task and the key is there: OrderPendingException is  *)
(* caught by `except Exception`, logged and raised again; finally runs; the *)
(* task fails.                                                              *)
AcquirePending(t) ==
    /\ task[t].pc = "queued"
    /\ ~SetNX(lock, task[t].sid, clock).ok
    /\ lock' = FinallyLock(lock, task[t].sid, FALSE)
    /\ db' = [db EXCEPT ![task[t].sid] =
                AfterOutcome(@, BodyOutcome("pending", clock, TRUE), task[t].retries, clock)]
    /\ task' = [task EXCEPT ![t] = NextMessage(@, BodyOutcome("pending", clock, TRUE))]
    /\ ev' = ExecEvent(task[t].sid, "pending", BodyOutcome("pending", clock, TRUE),
                       task[t].retries)
    /\ UNCHANGED <<clock, debug, hist>>

(* The rest of the execution under the lock, for the broker answers in:     *)
(* load, login, submit, poll the order history, update and commit the       *)
(* script; finally; retry, failure or success.                              *)
ExecuteWith(t, in) ==
    LET s == task[t].sid
        path == PlaceOrderPath(db[s].exists, in)
        relogin == ForcedRelogin(db[s].exists, in)
        outcome == BodyOutcome(path, clock, in.ctx)
        row == IF db[s].exists
               THEN BodyCommit(db[s], path, relogin, task[t].decision, clock)
               ELSE db[s]
    IN
    /\ task[t].pc = "locked"
    /\ db' = [db EXCEPT ![s] = AfterOutcome(row, outcome, task[t].retries, clock)]
    /\ lock' = FinallyLock(lock, s, TRUE)
    /\ task' = [task EXCEPT ![t] = NextMessage(@, outcome)]
    /\ ev' = ExecEvent(s, path, outcome, task[t].retries)
    /\ UNCHANGED <<clock, debug, hist>>

Execute(t) == \E in \in BrokerAnswers : ExecuteWith(t, in)

----------------------------------------------------------------------------
(* decide_trade (logic/trade_decision.py) *)

Abs(x) == IF x < 0 THEN -x ELSE x

(* The trigger with strict comparisons: not hit at the very level *)
TriggerStrict(anchor, pct, live_ltp) ==
    IF pct >= 0
    THEN live_ltp * 100 > anchor * (100 + pct)
    ELSE live_ltp * 100 < anchor * (100 - Abs(pct))

(* live_ltp against anchor * (1 + pct/100), or anchor * (1 - |pct|/100)     *)
(* for a negative percentage; both sides multiplied by 100.                 *)
TriggerHit(anchor, pct, live_ltp) ==
    IF pct >= 0
    THEN live_ltp * 100 >= anchor * (100 + pct)
    ELSE live_ltp * 100 <= anchor * (100 - Abs(pct))

(* 100 * target and 100 * stop of the exit branch *)
Target100(wap, ptype, pvalue) ==
    IF ptype = "percentage" THEN wap * (100 + Abs(pvalue)) ELSE (wap + pvalue) * 100

Stop100(wap, stype, svalue) ==
    IF stype = "percentage" THEN wap * (100 - Abs(svalue)) ELSE (wap - svalue) * 100

(* The exit test with the stop applied whatever its value *)
ExitHitAnyStop(wap, live_ltp, st) ==
    \/ live_ltp * 100 >= Target100(wap, st.profit_target_type, st.profit_target_value)
    \/ live_ltp * 100 <= Stop100(wap, st.stop_loss_type, st.stop_loss_value)

ExitHit(wap, live_ltp, st) ==
    \/ live_ltp * 100 >= Target100(wap, st.profit_target_type, st.profit_target_value)
    \/ /\ st.stop_loss_value > 0
       /\ live_ltp * 100 <= Stop100(wap, st.stop_loss_type, st.stop_loss_value)

(* re_cfg: the three optional triggers; the mapping is empty if none is set *)
ReCfgEmpty(re) ==
    re.prev_day = NoCfg /\ re.last_buy = NoCfg /\ re.weighted_avg = NoCfg

(* The re-entry test that looks at the prev_day trigger alone *)
ReentryPrevDayOnly(sc, live_ltp, re) ==
    re.prev_day # NoCfg /\ sc.reentry_threshold # NoneVal
        /\ TriggerHit(sc.reentry_threshold, re.prev_day, live_ltp)

ReentryHit(sc, live_ltp, re) ==
    \/ re.prev_day # NoCfg /\ sc.reentry_threshold # NoneVal
         /\ TriggerHit(sc.reentry_threshold, re.prev_day, live_ltp)
    \/ re.last_buy # NoCfg /\ sc.last_buy_price # NoneVal
         /\ TriggerHit(sc.last_buy_price, re.last_buy, live_ltp)
    \/ re.weighted_avg # NoCfg /\ sc.weighted_avg_price # NoneVal
         /\ TriggerHit(sc.weighted_avg_price, re.weighted_avg, live_ltp)

(* The decision taken from the prices alone, whatever the status *)
DecideIgnoringStatus(sc, live_ltp, today, st, re) ==
    IF sc.entry_threshold # NoneVal
         /\ TriggerHit(sc.entry_threshold, st.entry_percentage, live_ltp)
    THEN "BUY"
    ELSE IF sc.weighted_avg_price # NoneVal
              /\ ExitHit(sc.weighted_avg_price, live_ltp, st)
    THEN "SELL"
    ELSE IF ~ReCfgEmpty(re) /\ sc.last_entry_date # today
              /\ ReentryHit(sc, live_ltp, re)
    THEN "RE-ENTRY"
    ELSE "NONE"

(* The decision with the re-entry triggers tried before the exit *)
DecideReentryFirst(sc, live_ltp, today, st, re) ==
    IF sc.status = "Waiting" /\ sc.entry_threshold # NoneVal
         /\ TriggerHit(sc.entry_threshold, st.entry_percentage, live_ltp)
    THEN "BUY"
    ELSE IF sc.status = "Running" /\ ~ReCfgEmpty(re) /\ sc.last_entry_date # today
              /\ ReentryHit(sc, live_ltp, re)
    THEN "RE-ENTRY"
    ELSE IF sc.status = "Running" /\ sc.weighted_avg_price # NoneVal
              /\ ExitHit(sc.weighted_avg_price, live_ltp, st)
    THEN "SELL"
    ELSE "NONE"

decide_trade(sc, live_ltp, today, st, re) ==
    IF sc.status = "Waiting" /\ sc.entry_threshold # NoneVal
         /\ TriggerHit(sc.entry_threshold, st.entry_percentage, live_ltp)
    THEN "BUY"
    ELSE IF sc.status = "Running" /\ sc.weighted_avg_price # NoneVal
              /\ ExitHit(sc.weighted_avg_price, live_ltp, st)
    THEN "SELL"
    ELSE IF sc.status = "Running" /\ ~ReCfgEmpty(re) /\ sc.last_entry_date # today
              /\ ReentryHit(sc, live_ltp, re)
    THEN "RE-ENTRY"
    ELSE "NONE"

----------------------------------------------------------------------------
(* Threshold cache of one cycle, keyed by (script_name, basis).  The        *)
(* strategy uses one basis for the entry and the prev_day re-entry          *)
(* threshold, so the key is the symbol; scripts 1 and 2 trade the same      *)
(* symbol, and so do 3 and 4, ...                                           *)

CacheKey(s) == (s + 1) \div 2
CacheKeys == {CacheKey(s) : s \in Scripts}
EmptyCache == [k \in CacheKeys |-> Unfetched]

(* thr from the cache, or from get_previous_ohlc (r: its result), caching   *)
(* it; calls counts the calls of get_previous_ohlc (ecalls: those for the   *)
(* entry threshold).                                                        *)
Resolve(cache, k, r) ==
    IF cache[k] # Unfetched
    THEN [thr |-> cache[k], cache |-> cache, calls |-> 0]
    ELSE [thr |-> r, cache |-> [cache EXCEPT ![k] = r], calls |-> 1]

(* evaluate_trade_decision (app/strategies.py 22-103).  `threshold_cache or *)
(* {}` replaces an empty cache by a fresh dict, so what is fetched into it  *)
(* does not reach the caller's cache.                                       *)
ReCfg(st) ==
    IF EnableReentry
    THEN [prev_day |-> st.reentry_prev_day, last_buy |-> st.reentry_last_buy,
          weighted_avg |-> st.reentry_weighted_avg]
    ELSE [prev_day |-> NoCfg, last_buy |-> NoCfg, weighted_avg |-> NoCfg]

evaluate_trade_decision(s, sc, live_ltp, now, cache, r2, r3) ==
    LET today == DayOf(now)
        shared == cache # EmptyCache
        e == IF sc.entry_threshold = NoneVal \/ sc.entry_threshold_date # today
             THEN Resolve(cache, CacheKey(s), r2)
             ELSE [thr |-> NoneVal, cache |-> cache, calls |-> 0]
        sc1 == IF e.thr # NoneVal
               THEN [sc EXCEPT !.entry_threshold = e.thr,
                               !.entry_threshold_date = today]
               ELSE sc
        re == ReCfg(Strategy)
        f == IF re.prev_day # NoCfg
                /\ (sc1.reentry_threshold = NoneVal \/ sc1.reentry_threshold_date # today)
             THEN Resolve(e.cache, CacheKey(s), r3)
             ELSE [thr |-> NoneVal, cache |-> e.cache, calls |-> 0]
        sc2 == IF f.thr # NoneVal
               THEN [sc1 EXCEPT !.reentry_threshold = f.thr,
                                !.reentry_threshold_date = today]
               ELSE sc1
    IN [ sc |-> sc2,
         cache |-> IF shared THEN f.cache ELSE cache,
         calls |-> e.calls + f.calls, ecalls |-> e.calls,
         decision |-> decide_trade(sc2, live_ltp, today, Strategy, re) ]

----------------------------------------------------------------------------
(* evaluate_trading_cycle (app/strategies.py 159-408), one script *)

InMarketHours(now) == MARKET_OPEN <= TimeOfDay(now) /\ TimeOfDay(now) <= MARKET_CLOSE

(* Daily post-exit reset (226-241) *)
NeedsReset(sc, now) == sc.last_trade_date # NoneVal /\ sc.last_trade_date < DayOf(now)

(* A reset that only turns the status back and clears the trade date *)
StatusOnlyReset(sc) ==
    [sc EXCEPT !.status = "Waiting", !.last_trade_date = NoneVal]

(* A reset that leaves last_trade_date, the field that triggers it *)
ResetKeepsTradeDate(sc) ==
    [sc EXCEPT !.status = "Waiting",
               !.entry_threshold = NoneVal, !.entry_threshold_date = NoneVal,
               !.last_entry_date = NoneVal,
               !.reentry_threshold = NoneVal, !.reentry_threshold_date = NoneVal,
               !.last_buy_price = NoneVal, !.cumulative_qty = 0,
               !.weighted_avg_price = NoneVal, !.trade_count = 0,
               !.last_order_time = NoneVal]

ResetScript(sc) ==
    [sc EXCEPT !.status = "Waiting",
               !.entry_threshold = NoneVal, !.entry_threshold_date = NoneVal,
               !.last_entry_date = NoneVal,
               !.reentry_threshold = NoneVal, !.reentry_threshold_date = NoneVal,
               !.last_buy_price = NoneVal, !.cumulative_qty = 0,
               !.weighted_avg_price = NoneVal, !.trade_count = 0,
               !.last_trade_date = NoneVal, !.last_order_time = NoneVal]

(* Daily re-entry reset (243-246) *)
ReentryReset(sc, now) ==
    IF sc.status = "Running" /\ sc.reentry_threshold_date # NoneVal
         /\ sc.reentry_threshold_date < DayOf(now)
    THEN [sc EXCEPT !.reentry_threshold = NoneVal, !.reentry_threshold_date = NoneVal]
    ELSE sc

(* Skip non-active scripts (248) *)
Inactive(sc) == sc.status \in {"Sold-out", "Paused", "Failed"}

(* The failure cooldown left out: never skip *)
NoFailureCooldown(sc, now) == FALSE

(* Failure cooldown (251-257) *)
InFailureCooldown(sc, now) ==
    /\ sc.failure_timestamp # NoneVal
    /\ SecondsOf(now) - SecondsOf(sc.failure_timestamp) < FAILURE_COOLDOWN_SECONDS

(* The general cooldown left out: never skip *)
NoOrderCooldown(sc, now) == FALSE

(* General cooldown (260-268) *)
InOrderCooldown(sc, now) ==
    /\ sc.last_order_time # NoneVal
    /\ SecondsOf(now) - SecondsOf(sc.last_order_time) < ORDER_COOLDOWN_SECONDS

(* Ensure the entry threshold of a Waiting script (271-299) *)
EnsureEntryThreshold(s, sc, now, cache, r1) ==
    IF sc.status = "Waiting"
         /\ (sc.entry_threshold = NoneVal \/ sc.entry_threshold_date # DayOf(now))
    THEN LET e == Resolve(cache, CacheKey(s), r1) IN
         [ sc |-> IF e.thr # NoneVal
                  THEN [sc EXCEPT !.entry_threshold = e.thr,
                                  !.entry_threshold_date = DayOf(now)]
                  ELSE sc,
           cache |-> e.cache, calls |-> e.calls ]
    ELSE [sc |-> sc, cache |-> cache, calls |-> 0]

(* Compute quantity (320-331), for the positive live_ltp that reaches it *)
Quantity(st, live_ltp) ==
    IF st.investment_type = "quantity" THEN st.investment_value
    ELSE st.investment_value \div live_ltp

(* Dates stamped for an exit only *)
StampExitOnly(sc, decision, now) ==
    IF decision = "SELL" THEN [sc EXCEPT !.last_trade_date = DayOf(now)] ELSE sc

(* Update script dates (354-358) *)
StampDates(sc, decision, now) ==
    IF decision \in {"BUY", "RE-ENTRY"}
    THEN [sc EXCEPT !.last_entry_date = DayOf(now)]
    ELSE IF decision = "SELL"
    THEN [sc EXCEPT !.last_trade_date = DayOf(now)]
    ELSE sc

(* The body of the loop over strat.scripts for one script.  live_ltp, the   *)
(* results r1, r2, r3 of get_previous_ohlc and delayOk (place_order_task    *)
(* .delay returned) are what the collaborators answer.                      *)
EvalScript(s, sc, now, cache, live_ltp, r1, r2, r3, delayOk) ==
    IF NeedsReset(sc, now)
    THEN [sc |-> ResetScript(sc), cache |-> cache, decision |-> "NONE",
          stage |-> "reset", calls |-> 0, ecalls |-> 0]
    ELSE
    LET sc1 == ReentryReset(sc, now) IN
    IF Inactive(sc1)
    THEN [sc |-> sc1, cache |-> cache, decision |-> "NONE",
          stage |-> "inactive", calls |-> 0, ecalls |-> 0]
    ELSE IF InFailureCooldown(sc1, now)
    THEN [sc |-> sc1, cache |-> cache, decision |-> "NONE",
          stage |-> "failure_cooldown", calls |-> 0, ecalls |-> 0]
    ELSE IF InOrderCooldown(sc1, now)
    THEN [sc |-> sc1, cache |-> cache, decision |-> "NONE",
          stage |-> "order_cooldown", calls |-> 0, ecalls |-> 0]
    ELSE
    LET t == EnsureEntryThreshold(s, sc1, now, cache, r1) IN
    IF live_ltp = 0
    THEN [sc |-> t.sc, cache |-> t.cache, decision |-> "NONE",
          stage |-> "no_ltp", calls |-> t.calls, ecalls |-> t.calls]
    ELSE
    LET d == evaluate_trade_decision(s, t.sc, live_ltp, now, t.cache, r2, r3) IN
    IF d.decision = "NONE"
    THEN [sc |-> d.sc, cache |-> d.cache, decision |-> "NONE",
          stage |-> "none", calls |-> t.calls + d.calls,
          ecalls |-> t.calls + d.ecalls]
    ELSE
    LET sc3 == StampDates(d.sc, d.decision, now) IN
    IF delayOk
    THEN [sc |-> [sc3 EXCEPT !.last_order_time = now], cache |-> d.cache,
          decision |-> d.decision, stage |-> "dispatched",
          calls |-> t.calls + d.calls, ecalls |-> t.calls + d.ecalls]
    ELSE [sc |-> sc3, cache |-> d.cache, decision |-> d.decision,
          stage |-> "delay_failed", calls |-> t.calls + d.calls,
          ecalls |-> t.calls + d.ecalls]

----------------------------------------------------------------------------
(* evaluate_trading_conditions_task (tasks.py 525-569): load the users with *)
(* their scripts, run evaluate_trading_cycle over them, commit.             *)

NoHist == [last |-> NoneVal, reset |-> FALSE, sellDay |-> NoneVal, buyDay |-> NoneVal]

(* The market hours guard left out: the cycle runs at any time *)
NoMarketGate(dbg, now) == FALSE

(* Market hours guard (169-173) *)
MarketGateCloses(dbg, now) == ~dbg /\ ~InMarketHours(now)

(* The first free message slot, 0 if there is none *)
FreeSlot(tk) ==
    IF \E t \in TaskIds : tk[t].pc = "free"
    THEN CHOOSE t \in TaskIds :
            tk[t].pc = "free" /\ \A u \in TaskIds : u < t => tk[u].pc # "free"
    ELSE 0

(* place_order_task.delay(...): a new message on the queue *)
Enqueue(tk, t, s, decision, qty) ==
    [tk EXCEPT ![t] = [FreeTask EXCEPT !.pc = "queued", !.sid = s,
                                       !.decision = decision, !.qty = qty]]

(* What the properties need to know of a dispatch *)
RecordDispatch(h, decision, now) ==
    [ last |-> now, reset |-> FALSE,
      sellDay |-> IF decision = "SELL" THEN DayOf(now) ELSE h.sellDay,
      buyDay |-> IF decision \in {"BUY", "RE-ENTRY"} THEN DayOf(now) ELSE h.buyDay ]

(* What the collaborators answer while one script is evaluated: the live    *)
(* price, get_previous_ohlc (the iteration calls it at most once: one cache *)
(* key per script) and whether place_order_task.delay returned.             *)
ScriptInputs == [ltp : LivePrices, r : FetchResults, delayOk : BOOLEAN]

(* Answers nobody asks for are left at their defaults: a script that is    *)
(* skipped before the price lookup asks for nothing, and delay is called    *)
(* only when there is a decision to dispatch.                               *)
NoAnswer == [ltp |-> 0, r |-> NoneVal, delayOk |-> TRUE]

Asked(i, sc, now, cache, a) ==
    LET stage == EvalScript(i, sc, now, cache, a.ltp, a.r, a.r, a.r, a.delayOk).stage IN
    IF stage \in {"reset", "inactive", "failure_cooldown", "order_cooldown"}
    THEN a = NoAnswer
    ELSE IF stage \in {"no_ltp", "none"} THEN a.delayOk
    ELSE TRUE

(* The ways the body of the loop can go for script i: the answers a that   *)
(* are asked for, each with the outcome e of the body.                      *)
Outcomes(i, st, now) ==
    { [a |-> a,
       e |-> EvalScript(i, st.rows[i], now, st.cache, a.ltp, a.r, a.r, a.r, a.delayOk)] :
        a \in {x \in ScriptInputs : Asked(i, st.rows[i], now, st.cache, x)} }

(* One iteration of the loop (224-408): the rows, the cycle's threshold     *)
(* cache, the queue and the dispatch record after script i was evaluated    *)
(* with the answers a and the outcome e; st.ok turns FALSE if the queue of  *)
(* the model is full.                                                       *)
StepScript(i, st, now, a, e) ==
    LET slot == FreeSlot(st.task)
        st1 == [st EXCEPT !.rows[i] = e.sc, !.cache = e.cache,
                          !.rep[i] = [stage |-> e.stage, calls |-> e.calls,
                                      failed |-> e.ecalls > 0 /\ a.r = NoneVal]]
    IN
    IF e.stage = "dispatched"
    THEN IF slot = 0
         THEN [st1 EXCEPT !.ok = FALSE]
         ELSE [st1 EXCEPT
                 !.task = Enqueue(st.task, slot, i, e.decision,
                                  Quantity(Strategy, a.ltp)),
                 !.hist[i] = RecordDispatch(@, e.decision, now)]
    ELSE IF e.stage = "reset"
    THEN [st1 EXCEPT !.hist[i].reset = TRUE]
    ELSE st1

(* A loop that ends when the body has raised: no script after i *)
AbortAfterError(i, stage) ==
    IF stage = "delay_failed" THEN NumScripts + 1 ELSE i + 1

(* The script the loop goes on with after script i, however the body ended: *)
(* every exit of the body is a `continue` or the end of the body, the       *)
(* except clauses (370-408) included.                                       *)
ContinueAfter(i, stage) == i + 1

(* The loop over the scripts from script i on: every way it can end, over   *)
(* the answers of the collaborators.                                        *)
RECURSIVE CycleFrom(_, _, _)
CycleFrom(i, st, now) ==
    IF i > NumScripts THEN {st}
    ELSE IF ~st.rows[i].exists THEN CycleFrom(i + 1, st, now)
    ELSE UNION { CycleFrom(ContinueAfter(i, st1.rep[i].stage), st1, now) :
                    st1 \in { StepScript(i, st, now, o.a, o.e) : o \in Outcomes(i, st, now) } }

(* evaluate_trading_cycle(users, now): gate, user without a session, loop *)
evaluate_trading_cycle(st, now, dbg, apiOk) ==
    IF MarketGateCloses(dbg, now) \/ ~apiOk THEN {st}
    ELSE CycleFrom(1, st, now)

(* How the cycle went: returned at the market hours guard (173), skipped    *)
(* the user for want of a session (188-189), or ran the loop.               *)
CyclePath(now, dbg, apiOk) ==
    IF MarketGateCloses(dbg, now) THEN "outside_hours"
    ELSE IF ~apiOk THEN "no_api"
    ELSE "ran"

CycleEvent(st, now, dbg, apiOk) ==
    [Event("cycle", 0, CyclePath(now, dbg, apiOk)) EXCEPT !.rep = st.rep]

EvaluateCycle ==
    \E apiOk \in BOOLEAN :
        \E st \in evaluate_trading_cycle(
                    [rows |-> db, cache |-> EmptyCache, task |-> task,
                     hist |-> hist, rep |-> NoReports, ok |-> TRUE],
                    clock, debug, apiOk) :
            /\ st.ok
            /\ db' = st.rows
            /\ task' = st.task
            /\ hist' = st.hist
            /\ ev' = CycleEvent(st, clock, debug, apiOk)
            /\ UNCHANGED <<clock, debug, lock>>

----------------------------------------------------------------------------
(* Routes of main.py *)

(* POST /script/<id>/retry (538-558) *)
RetriedScript(sc) ==
    [sc EXCEPT !.status = IF sc.cumulative_qty + sc.trade_count > 0
                          THEN "Running" ELSE "Waiting",
               !.failure_timestamp = NoneVal]

RetryScript(s) ==
    /\ db[s].exists
    /\ db[s].status = "Failed"
    /\ db' = [db EXCEPT ![s] = RetriedScript(@)]
    /\ ev' = Event("retry_script", s, "none")
    /\ UNCHANGED <<clock, debug, lock, task, hist>>

(* action == 'delete' of the strategy details page (616-619) *)
Deletable(sc) == sc.exists /\ sc.status \in {"Waiting", "Sold-out", "Running", "Failed"}

DeletedRow == [NewScript EXCEPT !.exists = FALSE]

DeleteScript(s) ==
    /\ Deletable(db[s])
    /\ db' = [db EXCEPT ![s] = DeletedRow]
    /\ ev' = Event("delete_script", s, "none")
    /\ UNCHANGED <<clock, debug, lock, task, hist>>

(* action == 'pause_resume' of the strategy details page (622-624) *)
ToggledStatus(status) == IF status # "Paused" THEN "Paused" ELSE "Running"

PauseResume(s) ==
    /\ db[s].exists
    /\ db' = [db EXCEPT ![s].status = ToggledStatus(@)]
    /\ ev' = Event("pause_resume", s, "none")
    /\ UNCHANGED <<clock, debug, lock, task, hist>>

(* action == 'exit' of the strategy details page (625-630) *)
ExitScript(s) ==
    /\ db[s].exists
    /\ db[s].status = "Running"
    /\ db' = [db EXCEPT ![s].status = "Sold-out"]
    /\ ev' = Event("exit", s, "none")
    /\ UNCHANGED <<clock, debug, lock, task, hist>>

----------------------------------------------------------------------------
(* Passage of time *)

Started(st) == st <= clock /\ clock < st + MaxElapsed

Tick ==
    /\ \E st \in StartTicks : Started(st)
    /\ clock' = clock + 1
    /\ lock' = ExpireKeys(lock, clock + 1)
    /\ ev' = Event("tick", 0, "none")
    /\ UNCHANGED <<debug, db, task, hist>>

----------------------------------------------------------------------------
Init ==
    /\ clock \in StartTicks
    /\ debug \in BOOLEAN
    /\ db \in [Scripts -> InitScripts \cup {DeletedRow}]
    /\ \A s \in Scripts : db[s].exists <=> s <= NumLive
    /\ lock = [s \in Scripts |-> NoneVal]
    /\ task = [t \in TaskIds |-> FreeTask]
    /\ hist = [s \in Scripts |-> NoHist]
    /\ ev = Event("init", 0, "none")

Next ==
    \/ Tick
    \/ EvaluateCycle
    \/ \E t \in TaskIds : AcquireOk(t)
    \/ \E t \in TaskIds : AcquirePending(t)
    \/ \E t \in TaskIds : Execute(t)
    \/ \E s \in Scripts : RetryScript(s)
    \/ \E s \in Scripts : DeleteScript(s)

Spec == Init /\ [][Next]_vars

----------------------------------------------------------------------------
(* acquire_order_lock on its own: callers attempt and release the keys of   *)
(* the scripts in any order while time passes.                              *)

(* acquire_order_lock(user_id, script_id): returns, or raises               *)
(* OrderPendingException (idempotency.py 5-20)                              *)
LockAttempt(k) ==
    /\ lock' = SetNX(lock, k, clock).lock
    /\ ev' = Event(IF SetNX(lock, k, clock).ok THEN "lock_ok" ELSE "lock_pending",
                   k, "none")
    /\ UNCHANGED <<clock, debug, db, task, hist>>

(* The holder's redis_client.delete(lock_key) *)
LockRelease(k) ==
    /\ KeyPresent(lock, k)
    /\ lock' = DeleteKey(lock, k)
    /\ ev' = Event("lock_release", k, "none")
    /\ UNCHANGED <<clock, debug, db, task, hist>>

LockInit ==
    /\ clock \in StartTicks
    /\ debug = FALSE
    /\ db = [s \in Scripts |-> DeletedRow]
    /\ lock = [s \in Scripts |-> NoneVal]
    /\ task = [t \in TaskIds |-> FreeTask]
    /\ hist = [s \in Scripts |-> NoHist]
    /\ ev = Event("init", 0, "none")

LockNext ==
    \/ Tick
    \/ \E k \in Scripts : LockAttempt(k)
    \/ \E k \in Scripts : LockRelease(k)

LockSpec == LockInit /\ [][LockNext]_vars

----------------------------------------------------------------------------
(* Lock holders that crash: the order lock (idempotency.py 16-20) and the   *)
(* threshold-fetch lock (tasks.py 425-435) are taken with SET NX EX and     *)
(* nobody deletes them; callers are active for MaxElapsed ticks and time    *)
(* runs on until the longest expiry window has passed.                      *)

LockKinds == {"order_pending", "threshold_fetch_pending"}
LockKeys == LockKinds \X Scripts

(* A key that is written without an expiry *)
NoExpiry(k) == 100 * SecondsPerDay

(* ex= of the SET that writes key k *)
KeyTTL(k) ==
    IF k[1] = "order_pending" THEN ORDER_COOLDOWN_SECONDS
    ELSE FAILURE_COOLDOWN_SECONDS

ExpiredKeys(lk, now) ==
    {k \in DOMAIN lk : lk[k] # NoneVal /\ SecondsOf(now - lk[k]) >= KeyTTL(k)}

ExpireByTTL(lk, now) ==
    [k \in DOMAIN lk |-> IF k \in ExpiredKeys(lk, now) THEN NoneVal ELSE lk[k]]

LongestTTLTicks == (ORDER_COOLDOWN_SECONDS + SecondsPerTick - 1) \div SecondsPerTick

(* A caller takes key k, or finds it taken, and then dies without deleting it *)
CrashAcquire(k) ==
    /\ \E st \in StartTicks : st <= clock /\ clock <= st + MaxElapsed
    /\ lock' = SetNX(lock, k, clock).lock
    /\ ev' = Event(IF SetNX(lock, k, clock).ok THEN "lock_ok" ELSE "lock_pending",
                   k[2], k[1])
    /\ UNCHANGED <<clock, debug, db, task, hist>>

(* Time passes and Redis drops the keys whose expiry window is over *)
TimePasses ==
    /\ \E st \in StartTicks :
         st <= clock /\ clock < st + MaxElapsed + LongestTTLTicks
    /\ clock' = clock + 1
    /\ lock' = ExpireByTTL(lock, clock + 1)
    /\ ev' = Event("tick", 0, "none") @@ [expired |-> ExpiredKeys(lock, clock + 1)]
    /\ UNCHANGED <<debug, db, task, hist>>

CrashInit ==
    /\ clock \in StartTicks
    /\ debug = FALSE
    /\ db = [s \in Scripts |-> DeletedRow]
    /\ lock = [k \in LockKeys |-> NoneVal]
    /\ task = [t \in TaskIds |-> FreeTask]
    /\ hist = [s \in Scripts |-> NoHist]
    /\ ev = Event("init", 0, "none")

CrashNext ==
    \/ TimePasses
    \/ \E k \in LockKeys : CrashAcquire(k)

(* Time does not stop: the step that lets it pass is taken again and again *)
CrashSpec == CrashInit /\ [][CrashNext]_vars /\ WF_vars(TimePasses)

----------------------------------------------------------------------------
(* The evaluation cycle over several scripts of one user: every script      *)
(* exists, scripts 1 and 2 trade the same symbol, and the beat runs cycles  *)
(* at one instant, before the worker has taken a message.                   *)

PairInit ==
    /\ clock \in StartTicks
    /\ debug \in BOOLEAN
    /\ db \in [Scripts -> InitScripts]
    /\ lock = [s \in Scripts |-> NoneVal]
    /\ task = [t \in TaskIds |-> FreeTask]
    /\ hist = [s \in Scripts |-> NoHist]
    /\ ev = Event("init", 0, "none")

PairNext == EvaluateCycle

PairSpec == PairInit /\ [][PairNext]_vars

----------------------------------------------------------------------------
(* The evaluation cycle and the script actions of the strategy details      *)
(* page (delete, pause/resume, exit) while time passes and the worker has   *)
(* not yet taken a message.                                                 *)

RouteNext ==
    \/ Tick
    \/ EvaluateCycle
    \/ \E s \in Scripts : DeleteScript(s)
    \/ \E s \in Scripts : PauseResume(s)
    \/ \E s \in Scripts : ExitScript(s)

RouteSpec == Init /\ [][RouteNext]_vars

----------------------------------------------------------------------------
(* Evaluation cycles that overlap: evaluate_trading_conditions_task runs in *)
(* several workers at one instant.  Each invocation loads the rows in its   *)
(* own session (tasks.py 532-539), then runs the loop on what it loaded,    *)
(* enqueues its orders and commits the columns it changed (541-548).  Here  *)
(* hist holds the invocations' sessions and, per script, how many orders    *)
(* the broker has accepted.                                                 *)

NumCycles == 2
Cycles == 1..NumCycles

NoSession == [pc |-> "idle", rows |-> [s \in Scripts |-> DeletedRow]]

(* Paths on which place_order returned stat Ok: the broker took the order *)
OrderPaths == {"rejected", "no_fill", "fill"}

(* The UPDATE of the commit writes the columns the session changed *)
CommitRow(cur, loaded, changed) ==
    [f \in DOMAIN cur |-> IF changed[f] # loaded[f] THEN changed[f] ELSE cur[f]]

(* users = User.query...all() (tasks.py 532-539) *)
CycleLoad(w) ==
    /\ hist.sessions[w].pc = "idle"
    /\ hist' = [hist EXCEPT !.sessions[w] = [pc |-> "loaded", rows |-> db]]
    /\ ev' = Event("load", 0, "none")
    /\ UNCHANGED <<clock, debug, db, lock, task>>

(* evaluate_trading_cycle(users, ...) on the loaded rows; db.session.commit() *)
CycleRun(w) ==
    /\ hist.sessions[w].pc = "loaded"
    /\ \E apiOk \in BOOLEAN :
         \E st \in evaluate_trading_cycle(
                     [rows |-> hist.sessions[w].rows, cache |-> EmptyCache,
                      task |-> task, hist |-> [s \in Scripts |-> NoHist],
                      rep |-> NoReports, ok |-> TRUE],
                     clock, debug, apiOk) :
            /\ st.ok
            /\ db' = [s \in Scripts |->
                        CommitRow(db[s], hist.sessions[w].rows[s], st.rows[s])]
            /\ task' = st.task
            /\ hist' = [hist EXCEPT !.sessions[w] = [NoSession EXCEPT !.pc = "done"]]
            /\ ev' = CycleEvent(st, clock, debug, apiOk)
    /\ UNCHANGED <<clock, debug, lock>>

(* The execution under the lock as in ExecuteWith, counting the orders the  *)
(* broker accepted                                                          *)
CountedExecute(t) ==
    \E in \in BrokerAnswers :
        LET s == task[t].sid
            path == PlaceOrderPath(db[s].exists, in)
            relogin == ForcedRelogin(db[s].exists, in)
            outcome == BodyOutcome(path, clock, in.ctx)
            row == IF db[s].exists
                   THEN BodyCommit(db[s], path, relogin, task[t].decision, clock)
                   ELSE db[s]
        IN
        /\ task[t].pc = "locked"
        /\ db' = [db EXCEPT ![s] = AfterOutcome(row, outcome, task[t].retries, clock)]
        /\ lock' = FinallyLock(lock, s, TRUE)
        /\ task' = [task EXCEPT ![t] = NextMessage(@, outcome)]
        /\ hist' = [hist EXCEPT !.orders[s] = @ + (IF path \in OrderPaths THEN 1 ELSE 0)]
        /\ ev' = ExecEvent(s, path, outcome, task[t].retries)
        /\ UNCHANGED <<clock, debug>>

OverlapInit ==
    /\ clock = FirstMarketTick
    /\ debug = FALSE
    /\ db \in [Scripts -> InitScripts \cup {DeletedRow}]
    /\ \A s \in Scripts : db[s].exists <=> s <= NumLive
    /\ lock = [s \in Scripts |-> NoneVal]
    /\ task = [t \in TaskIds |-> FreeTask]
    /\ hist = [sessions |-> [w \in Cycles |-> NoSession],
               orders |-> [s \in Scripts |-> 0]]
    /\ ev = Event("init", 0, "none")

OverlapNext ==
    \/ \E w \in Cycles : CycleLoad(w)
    \/ \E w \in Cycles : CycleRun(w)
    \/ \E t \in TaskIds : AcquireOk(t)
    \/ \E t \in TaskIds : AcquirePending(t)
    \/ \E t \in TaskIds : CountedExecute(t)

OverlapSpec == OverlapInit /\ [][OverlapNext]_vars

----------------------------------------------------------------------------
(* decide_trade on its own: applied to a script row in any status, with any *)
(* of its anchors present or absent, at a positive live price, under        *)
(* strategies of either sign of the entry percentage, either kind of profit *)
(* target, with and without stop-loss, and under every combination of the   *)
(* three re-entry triggers.                                                 *)

Statuses == {"Waiting", "Running", "Paused", "Sold-out", "Failed", "Archived"}

DecideRows ==
    { [NewScript EXCEPT !.status = status,
                        !.entry_threshold = et,
                        !.entry_threshold_date = IF et = NoneVal THEN NoneVal
                                                 ELSE DayOf(FirstMarketTick),
                        !.reentry_threshold = rt,
                        !.reentry_threshold_date = IF rt = NoneVal THEN NoneVal
                                                   ELSE DayOf(FirstMarketTick),
                        !.weighted_avg_price = wap,
                        !.last_buy_price = lbp,
                        !.last_entry_date = led] :
        status \in Statuses,
        et \in {NoneVal, RefPrice}, rt \in {NoneVal, RefPrice},
        wap \in {NoneVal, FillPrice}, lbp \in {NoneVal, FillPrice},
        led \in {NoneVal, DayOf(FirstMarketTick) - 1, DayOf(FirstMarketTick)} }

(* Profit target and stop-loss are both percentages or both absolute. *)
DecideStrategies ==
    { [Strategy EXCEPT !.entry_percentage = ep,
                       !.profit_target_type = pt,
                       !.profit_target_value = pv,
                       !.stop_loss_type = pt,
                       !.stop_loss_value = sl] :
        ep \in {-5, 5}, pt \in {"percentage", "absolute"}, pv \in {5, 10},
        sl \in {0, 10} }

ReCfgs == [prev_day : {NoCfg, -5, 5}, last_buy : {NoCfg, -5}, weighted_avg : {NoCfg, 5}]

(* Live prices on, next to and away from the trigger levels of the anchors. *)
(* The code computes the levels in binary floating point, the model         *)
(* exactly; the prices are those at which the two agree for an anchor of    *)
(* 100 (100 * 1.05, 100 * 0.95 and 100 * 0.9 are exact, 100 * 1.1 is not,   *)
(* so the anchor + 10 is left out).                                         *)
DecidePrices ==
    { RefPrice + d : d \in {-15, -11, -10, -9, -6, -5, -4, 4, 5, 6, 9, 11, 15} }

(* One call of decide_trade per behaviour; the event keeps the price *)
DecideWith(s, live_ltp, st, re) ==
    /\ ev.op = "init"
    /\ db[s].exists
    /\ ev' = [Event("decide", s, decide_trade(db[s], live_ltp, DayOf(clock), st, re))
                 EXCEPT !.ltp = live_ltp]
    /\ UNCHANGED <<clock, debug, db, lock, task, hist>>

Decide(s) ==
    \E live_ltp \in DecidePrices, st \in DecideStrategies, re \in ReCfgs :
        DecideWith(s, live_ltp, st, re)

DecideInit ==
    /\ clock = FirstMarketTick
    /\ debug = FALSE
    /\ db \in [Scripts -> DecideRows \cup {DeletedRow}]
    /\ \A s \in Scripts : db[s].exists <=> s <= NumLive
    /\ lock = [s \in Scripts |-> NoneVal]
    /\ task = [t \in TaskIds |-> FreeTask]
    /\ hist = [s \in Scripts |-> NoHist]
    /\ ev = Event("init", 0, "none")

DecideNext == \E s \in Scripts : Decide(s)

DecideSpec == DecideInit /\ [][DecideNext]_vars

----------------------------------------------------------------------------
(* get_previous_ohlc alone (shoonya_integration.py 88-171): the trailing    *)
(* window of daily records the broker returns is resolved to one price.     *)
(* A series item is a JSON text; a parsed record carries its trade date and *)
(* the high and the close of the day.                                       *)

MaxSeries == 2

(* datetime.min.date(), the date of a record whose date does not parse *)
MinDate == -365

(* The text of a value that float() does not accept *)
NotANumber == -9

field_map == [open |-> "into", high |-> "inth", low |-> "intl", close |-> "intc"]

(* str.lower() on the field names that are passed *)
Lower(field) == IF field = "Close" THEN "close" ELSE field

OhlcFields == {"close", "high", "open", "Close", "volume"}

OhlcValues == {0, RefPrice - 10, RefPrice, NotANumber}

OhlcRecords(today) ==
    [json : {"ok"}, date : {MinDate, today - 2, today - 1, today},
     inth : OhlcValues, intc : OhlcValues]
      \cup {[json |-> "bad", date |-> MinDate, inth |-> 0, intc |-> 0]}

OhlcSeries(today) ==
    UNION { [1..n -> OhlcRecords(today)] : n \in 0..MaxSeries }

(* rec.get(key, 0) or 0 *)
FieldOf(rec, key) == IF key \in DOMAIN rec THEN rec[key] ELSE 0

(* records: the items json.loads accepts, in the order received *)
ParsedRecords(series) == SelectSeq(series, LAMBDA r : r.json = "ok")

(* records.sort(key=parse_date, reverse=True): descending and stable *)
InsertDesc(sorted, rec) ==
    LET k == Cardinality({i \in 1..Len(sorted) : sorted[i].date >= rec.date})
    IN SubSeq(sorted, 1, k) \o <<rec>> \o SubSeq(sorted, k + 1, Len(sorted))

RECURSIVE SortDesc(_)
SortDesc(records) ==
    IF records = <<>> THEN <<>>
    ELSE InsertDesc(SortDesc(SubSeq(records, 1, Len(records) - 1)),
                    records[Len(records)])

OhlcNone == [kind |-> "none", val |-> 0]
OhlcError == [kind |-> "error", val |-> 0]

(* The loop over the sorted records: field_map is indexed with the field as *)
(* passed (KeyError when it is not a key), float() raises on a text that is *)
(* no number; both leave as ShoonyaAPIException.                            *)
RECURSIVE ScanRecords(_, _, _, _)
ScanRecords(records, i, field, today) ==
    IF i > Len(records) THEN OhlcNone
    ELSE IF records[i].date >= today THEN ScanRecords(records, i + 1, field, today)
    ELSE IF field \notin DOMAIN field_map THEN OhlcError
    ELSE LET val == FieldOf(records[i], field_map[field]) IN
         IF val = NotANumber THEN OhlcError
         ELSE IF val > 0 THEN [kind |-> "value", val |-> val]
         ELSE ScanRecords(records, i + 1, field, today)

get_previous_ohlc(series, field, today) ==
    IF Lower(field) \notin DOMAIN field_map THEN OhlcNone
    ELSE IF series = <<>> THEN OhlcNone
    ELSE IF ParsedRecords(series) = <<>> THEN OhlcNone
    ELSE ScanRecords(SortDesc(ParsedRecords(series)), 1, field, today)

OhlcEvent(series, field, res) ==
    [Event("ohlc", 0, res.kind) EXCEPT !.ltp = res.val]
        @@ [field |-> field, series |-> series]

PreviousOhlc ==
    /\ ev.op = "init"
    /\ \E field \in OhlcFields : \E series \in OhlcSeries(DayOf(clock)) :
         ev' = OhlcEvent(series, field, get_previous_ohlc(series, field, DayOf(clock)))
    /\ UNCHANGED <<clock, debug, db, lock, task, hist>>

OhlcInit ==
    /\ clock \in StartTicks
    /\ debug = FALSE
    /\ db = [s \in Scripts |-> IF s <= NumLive THEN NewScript ELSE DeletedRow]
    /\ lock = [s \in Scripts |-> NoneVal]
    /\ task = [t \in TaskIds |-> FreeTask]
    /\ hist = [s \in Scripts |-> NoHist]
    /\ ev = Event("init", 0, "none")

OhlcNext == PreviousOhlc

OhlcSpec == OhlcInit /\ [][OhlcNext]_vars

----------------------------------------------------------------------------
(* Evaluation cycles that end in an exception nobody catches inside the     *)
(* loop: after the scripts of one user were handled, the merge of the live  *)
(* state of the next user raises (redis_client.get / build_strategy_state / *)
(* redis_client.set, strategies.py 191-201, outside every try).  The        *)
(* exception leaves evaluate_trading_cycle, skips db.session.commit()       *)
(* (tasks.py 548), is logged and raised again (559-569); the session is     *)
(* discarded with the application context.  The messages handed to          *)
(* place_order_task.delay before are on the queue.                          *)

AbortedCycle ==
    /\ ~MarketGateCloses(debug, clock)
    /\ \E st \in evaluate_trading_cycle(
                    [rows |-> db, cache |-> EmptyCache, task |-> task,
                     hist |-> hist, rep |-> NoReports, ok |-> TRUE],
                    clock, debug, TRUE) :
            /\ st.ok
            /\ db' = db
            /\ task' = st.task
            /\ hist' = [s \in Scripts |->
                          IF st.rep[s].stage = "dispatched" THEN st.hist[s] ELSE hist[s]]
            /\ ev' = [Event("cycle", 0, "aborted") EXCEPT !.rep = st.rep]
            /\ UNCHANGED <<clock, debug, lock>>

AbortNext ==
    \/ Tick
    \/ EvaluateCycle
    \/ AbortedCycle

AbortSpec == Init /\ [][AbortNext]_vars

----------------------------------------------------------------------------
(* The dispatch step of the cycle on its own (strategies.py 302-368), for a *)
(* script that passed the guards and has its thresholds, over the sizing of *)
(* the strategy set: investment_type and investment_value are whatever the  *)
(* user saved (main.py 402-404, 578-580: any number, 0 when left empty).    *)

SizeStrategies ==
    { [Strategy EXCEPT !.investment_type = it, !.investment_value = iv] :
        it \in {"quantity", "value"}, iv \in {0, 1, 2, 50, 250} }

(* A Waiting script with today's entry threshold, and Running scripts       *)
(* holding 1, 2 or 3 shares bought yesterday                                *)
SizeRows ==
    { [NewScript EXCEPT !.entry_threshold = RefPrice,
                        !.entry_threshold_date = DayOf(FirstMarketTick)] }
    \cup
    { [RunningScript EXCEPT !.reentry_threshold = RefPrice,
                            !.reentry_threshold_date = DayOf(FirstMarketTick),
                            !.cumulative_qty = q] : q \in {1, 2, 3} }

SizeEvent(s, stage, live_ltp, st) ==
    [Event("dispatch", s, stage) EXCEPT !.ltp = live_ltp]
        @@ [investment_type |-> st.investment_type,
            investment_value |-> st.investment_value]

(* Live LTP, decision, quantity, order params, dates, enqueue, stamp *)
DispatchWith(s, live_ltp, st) ==
    LET decision == IF live_ltp = 0 THEN "NONE"
                    ELSE decide_trade(db[s], live_ltp, DayOf(clock), st, ReCfg(st))
    IN
    IF decision = "NONE"
    THEN /\ ev' = SizeEvent(s, "none", live_ltp, st)
         /\ UNCHANGED <<clock, debug, db, lock, task, hist>>
    ELSE /\ db' = [db EXCEPT ![s] =
                    [StampDates(@, decision, clock) EXCEPT !.last_order_time = clock]]
         /\ task' = Enqueue(task, FreeSlot(task), s, decision, Quantity(st, live_ltp))
         /\ hist' = [hist EXCEPT ![s] = RecordDispatch(@, decision, clock)]
         /\ ev' = SizeEvent(s, "dispatched", live_ltp, st)
         /\ UNCHANGED <<clock, debug, lock>>

Dispatch(s) ==
    /\ ev.op = "init"
    /\ db[s].exists
    /\ \E live_ltp \in LivePrices, st \in SizeStrategies : DispatchWith(s, live_ltp, st)

SizeInit ==
    /\ clock = FirstMarketTick
    /\ debug = FALSE
    /\ db \in [Scripts -> SizeRows \cup {DeletedRow}]
    /\ \A s \in Scripts : db[s].exists <=> s <= NumLive
    /\ lock = [s \in Scripts |-> NoneVal]
    /\ task = [t \in TaskIds |-> FreeTask]
    /\ hist = [s \in Scripts |-> NoHist]
    /\ ev = Event("init", 0, "none")

SizeNext == \E s \in Scripts : Dispatch(s)

SizeSpec == SizeInit /\ [][SizeNext]_vars

----------------------------------------------------------------------------
(* fetch_entry_threshold_task (tasks.py 402-487): the routes that add       *)
(* scripts enqueue one message per new script (main.py 456-464, 865-873).   *)
(* An execution is one step.  Celery's autoretry wrapper runs around the    *)
(* function: a ShoonyaAPIException that leaves it re-queues the message     *)
(* while request.retries < max_retries and fails the task after that; the   *)
(* handler of MaxRetriesExceededError (482-487) sits inside the function,   *)
(* around a body that never calls retry, and is never entered.  The retry   *)
(* is delivered after its countdown: within the tick, or after time passed. *)

FetchMaxRetries == 6

(* get_previous_ohlc raised ShoonyaAPIException instead of returning *)
FetchRaises == -4

(* What the broker answers during one execution: the session (api1), the    *)
(* first get_previous_ohlc (r1), the fresh login after a None (api2) and    *)
(* the second get_previous_ohlc (r2)                                        *)
FetchAnswers ==
    [api1 : BOOLEAN, r1 : FetchResults \cup {FetchRaises},
     api2 : BOOLEAN, r2 : FetchResults \cup {FetchRaises}]

(* The path one execution takes (415-480) *)
FetchPath(exists, locked, in) ==
    IF ~exists THEN "missing"
    ELSE IF ~locked THEN "skipped"
    ELSE IF ~in.api1 THEN "api_fail"
    ELSE IF in.r1 = FetchRaises THEN "shoonya_exc"
    ELSE IF in.r1 # NoneVal THEN "persisted"
    ELSE IF ~in.api2 THEN "api_fail"
    ELSE IF in.r2 = FetchRaises THEN "shoonya_exc"
    ELSE IF in.r2 # NoneVal THEN "persisted"
    ELSE "no_threshold"

(* autoretry_for=(ShoonyaAPIException,), max_retries=6 *)
FetchRetries(path, retries) ==
    path \in {"api_fail", "shoonya_exc", "no_threshold"} /\ retries < FetchMaxRetries

FetchExecuteWith(t, in) ==
    LET s == task[t].sid
        nx == SetNX(lock, <<"threshold_fetch_pending", s>>, clock)
        path == FetchPath(db[s].exists, nx.ok, in)
    IN
    /\ task[t].pc = "queued"
    /\ lock' = IF db[s].exists THEN nx.lock ELSE lock
    /\ db' = IF path = "persisted"
             THEN [db EXCEPT ![s].entry_threshold =
                                 IF in.r1 # NoneVal THEN in.r1 ELSE in.r2,
                             ![s].entry_threshold_date = DayOf(clock)]
             ELSE db
    /\ task' = [task EXCEPT ![t] =
                    IF FetchRetries(path, task[t].retries)
                    THEN [@ EXCEPT !.retries = @ + 1]
                    ELSE FreeTask]
    /\ ev' = [Event("fetch", s, path) EXCEPT
                !.end = IF FetchRetries(path, task[t].retries) THEN "retry"
                        ELSE IF path = "persisted" THEN "success"
                        ELSE IF path \in {"missing", "skipped"} THEN "return"
                        ELSE "failure"]
    /\ UNCHANGED <<clock, debug, hist>>

FetchExecute(t) == \E in \in FetchAnswers : FetchExecuteWith(t, in)

(* An execution during which every lookup returns a value *)
FetchAnswered(t) ==
    FetchExecuteWith(t, [api1 |-> TRUE, r1 |-> RefPrice, api2 |-> TRUE, r2 |-> RefPrice])

FetchInit ==
    /\ clock \in StartTicks
    /\ debug = FALSE
    /\ db = [s \in Scripts |-> NewScript]
    /\ lock = [k \in LockKeys |-> NoneVal]
    /\ task = [t \in TaskIds |->
                 IF t \in Scripts
                 THEN [FreeTask EXCEPT !.pc = "queued", !.sid = t]
                 ELSE FreeTask]
    /\ hist = [s \in Scripts |-> NoHist]
    /\ ev = Event("init", 0, "none")

FetchNext ==
    \/ TimePasses
    \/ \E t \in TaskIds : FetchExecute(t)

(* Time does not stop, a worker takes every message that stays queued, and  *)
(* the price-history lookup eventually returns a value: of the executions   *)
(* of a message that is queued again and again, one gets its answers.       *)
FetchSpec ==
    /\ FetchInit /\ [][FetchNext]_vars
    /\ WF_vars(TimePasses)
    /\ \A t \in TaskIds : WF_vars(FetchExecute(t)) /\ SF_vars(FetchAnswered(t))

----------------------------------------------------------------------------
(* Properties *)

(* A place_order_task execution is in flight for script s: past lock        *)
(* acquisition and not yet finished.                                        *)
InFlight(t, s) == task[t].pc = "locked" /\ task[t].sid = s

(* C1: for every (user, script) key at most one place_order_task execution  *)
(* is past lock acquisition and not yet finished at any time.                *)
C1_AtMostOneInFlight ==
    \A s \in Scripts : \A t, u \in TaskIds :
        InFlight(t, s) /\ InFlight(u, s) => t = u

(* C2: acquire_order_lock is set-if-absent.  An attempt on key k returns    *)
(* exactly when k is absent, and then k is present; an attempt that finds k  *)
(* present raises OrderPendingException and changes nothing; so of two       *)
(* attempts on k with no release between them exactly one returns, the       *)
(* attempt after a release returns, and the other keys neither decide the    *)
(* outcome nor are touched.                                                  *)
C2_SetIfAbsent ==
    [][\A k \in Scripts :
        ev'.op \in {"lock_ok", "lock_pending"} /\ ev'.sid = k =>
            /\ (ev'.op = "lock_ok") <=> ~KeyPresent(lock, k)
            /\ KeyPresent(lock', k)
            /\ (ev'.op = "lock_pending" => lock' = lock)
            /\ \A j \in Scripts \ {k} : lock'[j] = lock[j]]_vars

(* C2 witness: both keys were acquired, neither blocking the other, and a   *)
(* second attempt on one of them has just raised OrderPendingException.     *)
C2_Witness ==
    \E k, j \in Scripts :
        /\ k # j
        /\ ev = Event("lock_pending", k, "none")
        /\ KeyPresent(lock, k)
        /\ KeyPresent(lock, j)

(* The execution of message t that was in flight ends in this step *)
Ended(t) == task[t].pc = "locked" /\ task'[t].pc # "locked"

(* The cycle of this step dispatches an order with this decision for s *)
Dispatched(s, decision) ==
    \E t \in TaskIds :
        /\ task[t].pc = "free"
        /\ task'[t].pc = "queued"
        /\ task'[t].sid = s
        /\ task'[t].decision = decision

Decisions == {"BUY", "SELL", "RE-ENTRY"}

C4_PendingLeavesScript ==
    [][ev'.op = "execute" /\ ev'.path = "pending" =>
        LET s == ev'.sid IN
        /\ db'[s].status = db[s].status
        /\ db'[s].cumulative_qty = db[s].cumulative_qty
        /\ db'[s].weighted_avg_price = db[s].weighted_avg_price
        /\ db'[s].failure_timestamp = db[s].failure_timestamp]_vars

(* C5: a BUY or RE-ENTRY execution that gets an Ok response and a fill (no   *)
(* REJECTED record) leaves the script Running, cumulative_qty increased by   *)
(* the filled quantity, last_buy_price the fill price and trade_count        *)
(* increased by one.                                                         *)
C5_BuyFillPersisted ==
    [][\A t \in TaskIds :
        Ended(t) /\ ev'.path = "fill" /\ task[t].decision \in {"BUY", "RE-ENTRY"} =>
            LET s == task[t].sid IN
            /\ db'[s].status = "Running"
            /\ db'[s].cumulative_qty = db[s].cumulative_qty + FillQty
            /\ db'[s].last_buy_price = FillPrice
            /\ db'[s].trade_count = db[s].trade_count + 1]_vars

(* C6: a SELL execution that detects a fill leaves the script Sold-out with  *)
(* its thresholds and their dates, its position and its last buy price       *)
(* cleared.                                                                  *)
C6_SellFillPersisted ==
    [][\A t \in TaskIds :
        Ended(t) /\ ev'.path = "fill" /\ task[t].decision = "SELL" =>
            LET s == task[t].sid IN
            /\ db'[s].status = "Sold-out"
            /\ db'[s].entry_threshold = NoneVal
            /\ db'[s].entry_threshold_date = NoneVal
            /\ db'[s].reentry_threshold = NoneVal
            /\ db'[s].reentry_threshold_date = NoneVal
            /\ db'[s].cumulative_qty = 0
            /\ db'[s].weighted_avg_price = NoneVal
            /\ db'[s].last_buy_price = NoneVal]_vars

(* C7: when the broker rejects the order (stat Not_Ok, or a REJECTED record  *)
(* in the order history) the script ends Failed with failure_timestamp set   *)
(* and its position cleared, the lock is released and the task is not        *)
(* retried.                                                                  *)
C7_RejectionFailsAndClears ==
    [][\A t \in TaskIds :
        Ended(t) /\ ev'.path \in {"not_ok", "rejected"} =>
            LET s == task[t].sid IN
            /\ db'[s].status = "Failed"
            /\ db'[s].failure_timestamp = clock
            /\ db'[s].cumulative_qty = 0
            /\ db'[s].weighted_avg_price = NoneVal
            /\ ~KeyPresent(lock', s)
            /\ task'[t] = FreeTask]_vars

(* C8: an execution that gets no response or an unexpected response is       *)
(* retried while fewer than 3 retries were made, never more; it gives up on  *)
(* an empty response only after a forced fresh login and a second attempt;   *)
(* once the retries are exhausted the script is Failed with                  *)
(* failure_timestamp set; and the key is absent after every such execution.  *)
C8_BoundedRetry ==
    [][\A t \in TaskIds :
        Ended(t) /\ ev'.path \in {"no_response", "unexpected"} =>
            LET s == task[t].sid IN
            /\ ~KeyPresent(lock', s)
            /\ task'[t].retries <= MaxRetries
            /\ (\A in \in BrokerAnswers :
                    ExecuteWith(t, in) /\ ev'.path = "no_response" =>
                        in.r1 = "None" /\ (in.api2 => in.r2 = "None"))
            /\ IF task[t].retries < MaxRetries
               THEN task'[t] = [task[t] EXCEPT !.pc = "queued",
                                               !.retries = task[t].retries + 1]
               ELSE /\ task'[t] = FreeTask
                    /\ db'[s].status = "Failed"
                    /\ db'[s].failure_timestamp = clock]_vars

(* C8 witness: the fourth execution got no response either: the retries are  *)
(* exhausted, the script is Failed with failure_timestamp set, the key is    *)
(* absent and no message for the script is left.                             *)
C8_Witness ==
    /\ ev.op = "execute"
    /\ ev.path = "no_response"
    /\ ev.end = "failure"
    /\ db[ev.sid].status = "Failed"
    /\ db[ev.sid].failure_timestamp = clock
    /\ ~KeyPresent(lock, ev.sid)
    /\ \A t \in TaskIds : task[t].sid # ev.sid

C10_OneSellPerDay ==
    [][\A s \in Scripts :
        Dispatched(s, "SELL") => hist[s].sellDay # DayOf(clock)]_vars

(* C11: a BUY is dispatched only against an entry threshold fetched today:  *)
(* the script a cycle dispatches BUY for has entry_threshold_date = today   *)
(* (a stale threshold whose refetch failed is treated as absent).           *)
C11_BuyOnlyOnTodaysThreshold ==
    [][\A s \in Scripts :
        Dispatched(s, "BUY") => db'[s].entry_threshold_date = DayOf(clock)]_vars

(* Calls of get_previous_ohlc for cache key k that the last cycle made      *)
(* while it evaluated the scripts 1..n                                       *)
RECURSIVE CallsFor(_, _)
CallsFor(k, n) ==
    IF n = 0 THEN 0
    ELSE CallsFor(k, n - 1) + (IF CacheKey(n) = k THEN ev.rep[n].calls ELSE 0)

(* C12: within one evaluation cycle get_previous_ohlc is called at most     *)
(* once per (symbol, basis) key, over all the scripts that share the key    *)
(* and over the entry and the prev_day re-entry threshold.                  *)
C12_OneFetchPerKey ==
    ev.op = "cycle" => \A k \in CacheKeys : CallsFor(k, NumScripts) <= 1

(* The cycle of this step evaluated script s and the get_previous_ohlc call *)
(* for its entry threshold raised (or returned None, which the code treats  *)
(* alike).                                                                  *)
FetchFailed(s) == ev'.op = "cycle" /\ ev'.rep[s].failed

(* C13: when get_previous_ohlc raises while a Waiting script is evaluated,  *)
(* the cycle leaves the script's entry threshold unchanged, decides NONE    *)
(* and places no order for it, and goes on to the remaining scripts.        *)
C13_FetchFailureYieldsNone ==
    [][\A s \in Scripts :
        FetchFailed(s) /\ db[s].status = "Waiting" =>
            /\ db'[s].entry_threshold = db[s].entry_threshold
            /\ db'[s].entry_threshold_date = db[s].entry_threshold_date
            /\ ev'.rep[s].stage \in {"no_ltp", "none"}
            /\ \A d \in Decisions : ~Dispatched(s, d)
            /\ \A u \in Scripts :
                  u > s /\ db[u].exists => ev'.rep[u].stage # "skipped"]_vars

(* 09:15:00 <= time of day <= 15:30:00 *)
WithinTradingWindow(tick) ==
    /\ 9 * 3600 + 15 * 60 <= TimeOfDay(tick)
    /\ TimeOfDay(tick) <= 15 * 3600 + 30 * 60

(* C14: a cycle invoked with skip_market_hours = False at a time outside    *)
(* 09:15-15:30 returns without processing anything: no script field         *)
(* changes, nothing is fetched, nothing is dispatched.  With                 *)
(* skip_market_hours = True (DEBUG) the guard is bypassed: the cycle goes    *)
(* on to the users at any time, and evaluates every script of a user that    *)
(* has a broker session.                                                     *)
C14_MarketHoursGate ==
    [][ev'.op = "cycle" =>
        /\ ~debug /\ ~WithinTradingWindow(clock) =>
              /\ ev'.path = "outside_hours"
              /\ db' = db /\ task' = task /\ hist' = hist
              /\ ev'.rep = NoReports
        /\ debug \/ WithinTradingWindow(clock) =>
              /\ ev'.path \in {"ran", "no_api"}
              /\ ev'.path = "ran" =>
                    \A s \in Scripts : db[s].exists => ev'.rep[s].stage # "skipped"]_vars

(* A cycle returned at the guard with a script it would have evaluated *)
C14_Witness ==
    /\ ev.op = "cycle" /\ ev.path = "outside_hours" /\ ~debug
    /\ \E s \in Scripts : db[s].exists /\ db[s].status = "Waiting"

(* The script as the daily post-exit reset leaves it *)
FullyReset(sc) ==
    /\ sc.status = "Waiting"
    /\ sc.entry_threshold = NoneVal /\ sc.entry_threshold_date = NoneVal
    /\ sc.reentry_threshold = NoneVal /\ sc.reentry_threshold_date = NoneVal
    /\ sc.last_entry_date = NoneVal /\ sc.last_trade_date = NoneVal
    /\ sc.last_buy_price = NoneVal /\ sc.weighted_avg_price = NoneVal
    /\ sc.last_order_time = NoneVal
    /\ sc.cumulative_qty = 0 /\ sc.trade_count = 0

(* C15: a script whose last_trade_date is before today ends the cycle that  *)
(* evaluates it Waiting, with the entry and re-entry thresholds and their    *)
(* dates, last_entry_date, last_trade_date, last_buy_price,                  *)
(* weighted_avg_price and last_order_time null and cumulative_qty and        *)
(* trade_count 0; the cycle fetches no threshold, takes no decision and      *)
(* places no order for it.                                                   *)
C15_DailyReset ==
    [][\A s \in Scripts :
        /\ ev'.op = "cycle" /\ ev'.path = "ran" /\ db[s].exists
        /\ db[s].last_trade_date # NoneVal /\ db[s].last_trade_date < DayOf(clock)
        => /\ FullyReset(db'[s])
           /\ ev'.rep[s] = [NoReport EXCEPT !.stage = "reset"]
           /\ \A d \in Decisions : ~Dispatched(s, d)]_vars

(* A cycle has just reset a script that had sold on the previous day *)
C15_Witness ==
    /\ ev.op = "cycle"
    /\ \E s \in Scripts :
          /\ ev.rep[s].stage = "reset" /\ FullyReset(db[s])
          /\ hist[s].sellDay # NoneVal /\ hist[s].sellDay < DayOf(clock)

(* The last step was a cycle that applied the daily post-exit reset to s *)
JustReset(s) == ev.op = "cycle" /\ ev.rep[s].stage = "reset"

(* C16 as stated: re-running the cycle on the script it has just reset      *)
(* leaves the script in the identical state.                                *)
C16_RerunLeavesIdentical ==
    [][\A s \in Scripts :
        JustReset(s) /\ ev'.op = "cycle" => db'[s] = db[s]]_vars

(* C16, amended: the reset is idempotent as an assignment (applied to the   *)
(* script it has just reset it changes nothing), and the cycle re-run on    *)
(* the just-reset script does not reset it again and leaves it Waiting; it  *)
(* evaluates the script as a new Waiting script instead.                    *)
C16_ResetIdempotent ==
    [][\A s \in Scripts :
        JustReset(s) =>
            /\ ResetScript(db[s]) = db[s]
            /\ ~NeedsReset(db[s], clock)
            /\ ev'.op = "cycle" =>
                  /\ ev'.rep[s].stage # "reset"
                  /\ db'[s].status = "Waiting"]_vars

(* The cycle was re-run on a script the cycle before it had reset, and      *)
(* evaluated it                                                             *)
C16_Witness ==
    /\ ev.op = "cycle"
    /\ \E s \in Scripts :
          /\ hist[s].reset /\ hist[s].sellDay # NoneVal
          /\ hist[s].sellDay < DayOf(clock)
          /\ ev.rep[s].stage \in {"no_ltp", "none"}
          /\ db[s].status = "Waiting"

(* C17: a Failed script is excluded from all automated action: no           *)
(* evaluation cycle changes any of its fields or dispatches an order for    *)
(* it, on the day of the failure or later, within or after the failure      *)
(* cooldown; only the manual retry takes it out of Failed.                  *)
C17_FailedExcluded ==
    [][\A s \in Scripts :
        db[s].exists /\ db[s].status = "Failed" /\ ev'.op = "cycle" =>
            /\ db'[s] = db[s]
            /\ \A d \in Decisions : ~Dispatched(s, d)]_vars

(* C18: a Paused script is excluded from evaluation: while it is Paused no  *)
(* cycle changes its status or any other field, fetches a threshold for it  *)
(* or dispatches an order for it.                                           *)
C18_PausedExcluded ==
    [][\A s \in Scripts :
        db[s].exists /\ db[s].status = "Paused" /\ ev'.op = "cycle" =>
            /\ db'[s] = db[s]
            /\ ev'.rep[s].calls = 0
            /\ \A d \in Decisions : ~Dispatched(s, d)]_vars

(* The body of the loop raised for script s in the cycle of this step:      *)
(* get_previous_ohlc while the entry threshold was resolved, or             *)
(* place_order_task.delay while the order was dispatched.                   *)
BodyRaised(s) ==
    ev'.op = "cycle" /\ (ev'.rep[s].failed \/ ev'.rep[s].stage = "delay_failed")

C20_DecisionPreconditions ==
    \A s \in Scripts : \A live_ltp \in DecidePrices :
    \A st \in DecideStrategies : \A re \in ReCfgs :
        db[s].exists =>
            LET sc == db[s]
                d == decide_trade(sc, live_ltp, DayOf(clock), st, re)
            IN /\ d \in Decisions \cup {"NONE"}
               /\ d = "BUY" => sc.status = "Waiting" /\ sc.entry_threshold # NoneVal
               /\ d = "SELL" => sc.status = "Running" /\ sc.weighted_avg_price # NoneVal
               /\ d = "RE-ENTRY" =>
                     /\ sc.status = "Running"
                     /\ re.prev_day # NoCfg \/ re.last_buy # NoCfg \/ re.weighted_avg # NoCfg
                     /\ sc.last_entry_date # DayOf(clock)
               /\ sc.status \notin {"Waiting", "Running"} => d = "NONE"
               /\ sc.status = "Waiting" /\ sc.entry_threshold = NoneVal => d = "NONE"
               /\ sc.status = "Running" /\ sc.weighted_avg_price = NoneVal
                     /\ sc.reentry_threshold = NoneVal /\ sc.last_buy_price = NoneVal
                     => d = "NONE"

(* decide_trade has returned RE-ENTRY for a Running script *)
C20_Witness ==
    /\ ev.op = "decide" /\ ev.path = "RE-ENTRY"
    /\ db[ev.sid].status = "Running"
    /\ db[ev.sid].last_entry_date # DayOf(clock)

C23_FirstMatchWins ==
    \A s \in Scripts : \A live_ltp \in DecidePrices :
    \A st \in DecideStrategies : \A re \in ReCfgs :
        db[s].exists =>
            LET sc == db[s]
                d == decide_trade(sc, live_ltp, DayOf(clock), st, re)
                entry == sc.status = "Waiting" /\ sc.entry_threshold # NoneVal
                           /\ TriggerHit(sc.entry_threshold, st.entry_percentage, live_ltp)
                exit == sc.status = "Running" /\ sc.weighted_avg_price # NoneVal
                          /\ ExitHit(sc.weighted_avg_price, live_ltp, st)
                reentry == sc.status = "Running" /\ ~ReCfgEmpty(re)
                             /\ sc.last_entry_date # DayOf(clock)
                             /\ ReentryHit(sc, live_ltp, re)
            IN /\ d \in {"BUY", "SELL", "RE-ENTRY", "NONE"}
               /\ entry => d = "BUY"
               /\ exit => d = "SELL"
               /\ exit /\ reentry => d = "SELL"
               /\ d = "RE-ENTRY" => reentry /\ ~exit /\ ~entry

(* decide_trade has returned SELL at a price at which, for the strategy and *)
(* re-entry configuration of the call, a re-entry trigger holds as well     *)
C23_Witness ==
    /\ ev.op = "decide" /\ ev.path = "SELL"
    /\ db[ev.sid].status = "Running"
    /\ db[ev.sid].last_entry_date # DayOf(clock)
    /\ \E st \in DecideStrategies, re \in ReCfgs :
         /\ ExitHit(db[ev.sid].weighted_avg_price, ev.ltp, st)
         /\ ~ReCfgEmpty(re) /\ ReentryHit(db[ev.sid], ev.ltp, re)
         /\ decide_trade(db[ev.sid], ev.ltp, DayOf(clock), st, re) = ev.path

C25_WeightedAverage ==
    [][\A t \in TaskIds :
        Ended(t) /\ ev'.path = "fill" /\ task[t].decision \in {"BUY", "RE-ENTRY"} =>
            LET s == task[t].sid
                prev_qty == db[s].cumulative_qty
                prev_avg == IF db[s].weighted_avg_price # NoneVal
                            THEN db[s].weighted_avg_price ELSE 0
            IN /\ db'[s].cumulative_qty = prev_qty + FillQty
               /\ db'[s].weighted_avg_price # NoneVal
               /\ db'[s].weighted_avg_price * db'[s].cumulative_qty
                    = prev_avg * prev_qty + FillPrice * FillQty]_vars

(* C26: get_previous_ohlc returns the requested field of the most recent    *)
(* record dated strictly before today whose value is a positive number (a   *)
(* zero for yesterday is passed over for the value of two days ago), and    *)
(* returns null, not an error, when the history is empty, holds no          *)
(* parseable record, or holds no such record.                               *)
C26_PreviousOhlc ==
    ev.op = "ohlc" =>
        LET series == ev.series
            today == DayOf(clock)
            key == Lower(ev.field)
            Value(i) == IF key \in DOMAIN field_map
                        THEN FieldOf(series[i], field_map[key]) ELSE 0
            Qualifying == {i \in 1..Len(series) :
                              /\ series[i].json = "ok"
                              /\ series[i].date < today
                              /\ Value(i) # NotANumber /\ Value(i) > 0}
        IN IF Qualifying = {}
           THEN ev.path = "none"
           ELSE /\ ev.path = "value"
                /\ \E i \in Qualifying :
                     /\ ev.ltp = Value(i)
                     /\ \A j \in Qualifying : series[j].date <= series[i].date

(* C27: when the holder of an order lock or of the threshold-fetch lock     *)
(* dies without releasing it, the key is gone once its expiry window has    *)
(* passed and an acquisition of the same key then succeeds: no key stays    *)
(* locked forever.                                                          *)
C27_LocksExpire ==
    \A k \in LockKeys :
        KeyPresent(lock, k) ~> (~KeyPresent(lock, k) /\ SetNX(lock, k, clock).ok)

(* One tick has expired an order lock and a threshold-fetch lock that their *)
(* holders never released                                                   *)
C27_Witness ==
    /\ ev.op = "tick"
    /\ DOMAIN lock = LockKeys
    /\ <<"order_pending", 1>> \in ev.expired
    /\ <<"threshold_fetch_pending", 1>> \in ev.expired
    /\ ~KeyPresent(lock, <<"order_pending", 1>>)
    /\ ~KeyPresent(lock, <<"threshold_fetch_pending", 1>>)

(* C28: when two evaluation cycles overlap on a script whose decision is    *)
(* not NONE, the broker gets at most one order for that script, however the *)
(* cycles and the executions they enqueue interleave.                       *)
C28_OneOrderPerOverlap ==
    \A s \in Scripts : hist.orders[s] <= 1

(* C29: a place_order_task execution deletes the order lock only if it is   *)
(* the execution that acquired it: an execution that found the key taken    *)
(* leaves the holder's key as it is.                                        *)
C29_DeletesOnlyOwnLock ==
    [][ev'.op = "execute" /\ ev'.path = "pending" =>
          /\ KeyPresent(lock, ev'.sid)
          /\ lock'[ev'.sid] = lock[ev'.sid]]_vars

(* C30: the daily full reset discards the position only of scripts that     *)
(* have really exited: a Running script with cumulative_qty > 0, whose SELL *)
(* was dispatched but never recorded as filled, is not set to Waiting with  *)
(* cumulative_qty 0 by a cycle.                                             *)
C30_ResetOnlyAfterExit ==
    [][\A s \in Scripts :
          /\ ev'.op = "cycle"
          /\ db[s].exists /\ db[s].status = "Running" /\ db[s].cumulative_qty > 0
          /\ hist[s].sellDay # NoneVal
          => ~(db'[s].status = "Waiting" /\ db'[s].cumulative_qty = 0)]_vars

(* C31: within one cycle the guards of a script run in the order reset,     *)
(* inactive status, failure cooldown, order cooldown, threshold fetch,      *)
(* decision, dispatch: a script that is reset, is Sold-out, Paused or       *)
(* Failed, or is inside its failure or order cooldown ends at the first of  *)
(* these guards that applies, with no call of get_previous_ohlc and no      *)
(* message enqueued; and a message is enqueued only for a script that       *)
(* passed all guards, with the decision (not NONE) taken in this cycle.     *)
C31_GuardOrder ==
    [][ev'.op = "cycle" /\ ev'.path = "ran" =>
        \A s \in Scripts : db[s].exists =>
            LET sc == db[s]
                rep == ev'.rep[s]
                reset == sc.last_trade_date # NoneVal /\ sc.last_trade_date < DayOf(clock)
                inactive == sc.status \in {"Sold-out", "Paused", "Failed"}
                failure == sc.failure_timestamp # NoneVal
                             /\ SecondsOf(clock - sc.failure_timestamp) < FAILURE_COOLDOWN_SECONDS
                cooldown == sc.last_order_time # NoneVal
                              /\ SecondsOf(clock - sc.last_order_time) < ORDER_COOLDOWN_SECONDS
                Enqueued(t) == task'[t] # task[t] /\ task'[t].pc = "queued" /\ task'[t].sid = s
            IN /\ rep.stage = "reset" <=> reset
               /\ rep.stage = "inactive" <=> ~reset /\ inactive
               /\ rep.stage = "failure_cooldown" <=> ~reset /\ ~inactive /\ failure
               /\ rep.stage = "order_cooldown" <=>
                     ~reset /\ ~inactive /\ ~failure /\ cooldown
               /\ reset \/ inactive \/ failure \/ cooldown =>
                     /\ rep.calls = 0
                     /\ \A t \in TaskIds : ~Enqueued(t)
                     /\ db'[s].last_order_time = IF reset THEN NoneVal ELSE sc.last_order_time
               /\ \A t \in TaskIds : Enqueued(t) =>
                     /\ rep.stage = "dispatched"
                     /\ task'[t].decision \in {"BUY", "SELL", "RE-ENTRY"}
                     /\ db'[s].last_order_time = clock]_vars

(* A cycle has just passed over a script inside its failure cooldown *)
C31_Witness ==
    /\ ev.op = "cycle" /\ ev.path = "ran"
    /\ ev.rep[1].stage = "failure_cooldown"
    /\ db[1].status \in {"Waiting", "Running"}
    /\ db[1].failure_timestamp # NoneVal
    /\ SecondsOf(clock - db[1].failure_timestamp) < FAILURE_COOLDOWN_SECONDS

C33_NoFillLeavesScript ==
    [][ev'.op = "execute" /\ ev'.path = "no_fill" =>
        LET s == ev'.sid IN
        /\ db'[s].status = db[s].status
        /\ db'[s].cumulative_qty = db[s].cumulative_qty
        /\ db'[s].weighted_avg_price = db[s].weighted_avg_price
        /\ db'[s].entry_threshold = db[s].entry_threshold
        /\ db'[s].entry_threshold_date = db[s].entry_threshold_date
        /\ db'[s].reentry_threshold = db[s].reentry_threshold
        /\ db'[s].reentry_threshold_date = db[s].reentry_threshold_date
        /\ db'[s].last_buy_price = db[s].last_buy_price
        /\ db'[s].trade_count = db[s].trade_count
        /\ ~KeyPresent(lock', s)]_vars

(* An execution for a Running script holding a position has just ended on    *)
(* the no-fill path: the position is still there and the key is absent       *)
C33_Witness ==
    /\ ev.op = "execute"
    /\ ev.path = "no_fill"
    /\ ev.end = "success"
    /\ db[ev.sid].status = "Running"
    /\ db[ev.sid].cumulative_qty > 0
    /\ db[ev.sid].weighted_avg_price # NoneVal
    /\ ~KeyPresent(lock, ev.sid)

(* C34: when place_order_task.delay raises for a script, the cycle leaves    *)
(* the script's last_entry_date, last_trade_date and last_order_time as they *)
(* were before the decision: no date is stamped for an order that was never  *)
(* enqueued.                                                                 *)
C34_FailedEnqueueLeavesDates ==
    [][\A s \in Scripts :
        ev'.op = "cycle" /\ ev'.rep[s].stage = "delay_failed" =>
            /\ \A t \in TaskIds : task'[t] # task[t] => task'[t].sid # s
            /\ db'[s].last_entry_date = db[s].last_entry_date
            /\ db'[s].last_trade_date = db[s].last_trade_date
            /\ db'[s].last_order_time = db[s].last_order_time]_vars

(* C35: when a cycle dispatched an order for a script and then aborts with   *)
(* an uncaught exception raised while another script or user is handled, the *)
(* script's last_order_time stamp of that dispatch is persisted, so that no  *)
(* cycle within the cooldown dispatches again for the script.                *)
C35_StampSurvivesAbort ==
    [][\A s \in Scripts :
        /\ ev'.op = "cycle" /\ ev'.path = "aborted"
        /\ \E d \in Decisions : Dispatched(s, d)
        => db'[s].last_order_time = clock]_vars

(* C36: every SELL order dispatched has a quantity equal to the script's     *)
(* recorded cumulative_qty at dispatch time, with fixed-quantity and with    *)
(* fixed-notional sizing.                                                    *)
C36_SellQuantityIsPosition ==
    \A t \in TaskIds :
        task[t].pc = "queued" /\ task[t].decision = "SELL" =>
            task[t].qty = db[task[t].sid].cumulative_qty

(* C37: every dispatched order has a quantity of at least 1: when the        *)
(* notional is below the live price, or the configured quantity is 0, no     *)
(* order is dispatched.                                                      *)
C37_QuantityAtLeastOne ==
    \A t \in TaskIds : task[t].pc = "queued" => task[t].qty >= 1

(* C38: in every reachable state a Running script holds a position:          *)
(* cumulative_qty > 0 and weighted_avg_price is not null, whatever cycles,   *)
(* order-task outcomes and manual retries of Failed scripts came before.     *)
C38_RunningHoldsPosition ==
    \A s \in Scripts :
        db[s].exists /\ db[s].status = "Running" =>
            db[s].cumulative_qty > 0 /\ db[s].weighted_avg_price # NoneVal

(* C39: fetch_entry_threshold_task keeps retrying until it fetches a         *)
(* threshold: once it was started for an existing script, and given that the *)
(* lookup eventually returns a value, the task eventually persists           *)
(* entry_threshold with entry_threshold_date = today.                        *)
C39_FetchEventuallyPersists ==
    \A s \in Scripts :
        (db[s].exists /\ \E t \in TaskIds : task[t].pc = "queued" /\ task[t].sid = s)
            ~> (db[s].entry_threshold # NoneVal
                /\ db[s].entry_threshold_date = DayOf(clock))
====
